---- MODULE Spec2Model ----
(***************************************************************************)
(* The 2D systolic GEMM of samples/fpga/gemm_fpga_systolic_2D.py           *)
(* (C = A*B + C): the SDFG's three states (copy_to_device, gemm,           *)
(* copy_to_host) and, inside gemm, the four kinds of concurrently running  *)
(* components connected by the bounded streams A_pipe, B_pipe and C_pipe:  *)
(* read_A, read_B, the P_R x P_C unrolled processing elements and write_C. *)
(* Every blocking stream access is one step of the component doing it, so  *)
(* the components interleave freely.  Elements are integers.               *)
(***************************************************************************)
EXTENDS Integers, Sequences, FiniteSets, TLC

\* ------------------------------------------------------------------ bounds
MaxN == 4
MaxK == 2
MaxM == 4
MaxP == 2
MaxW == 2
MaxIterations == 32
MaxSmallIterations == 20
MaxAnyIterations == 16
MaxSeed == 1
MaxRuns == 2
MaxVal == 6
MaxDepth == 2
MaxDepthIterations == 20

\* ------------------------------------------------------- configurations
\* The seven command line arguments of the harness.
Params ==
  [N : 1..MaxN, K : 1..MaxK, M : 1..MaxM, P_R : 1..MaxP, P_C : 1..MaxP,
   W : 1..MaxW, T : 1..MaxM]

Divides(a, b) == b % a = 0

\* The divisibility preconditions of the design.
Valid(c) ==
  /\ Divides(c.P_R, c.N)
  /\ Divides(c.T, c.M)
  /\ Divides(c.W * c.P_C, c.T)

\* Loop bounds as the generated integer code evaluates them.
NB(c) == c.N \div c.P_R
NT(c) == c.M \div c.T
MT(c) == c.T \div (c.W * c.P_C)
TW(c) == c.T \div c.W
MW(c) == c.M \div c.W

\* Tasklet iterations of all processing elements in one run (per PE and
\* (n0, tm) pair: K buffer_a, K * MT multiply_add, P_R * MT write_c); the
\* explored configurations are the valid ones up to MaxIterations.
Iterations(c) ==
  c.P_R * c.P_C * NB(c) * NT(c) * (c.K * (1 + MT(c)) + c.P_R * MT(c))

Configs == {c \in Params : Valid(c) /\ Iterations(c) <= MaxIterations}

\* --------------------------------------------------------------- vectors
ZeroVec(w) == [l \in 0..(w - 1) |-> 0]
VecAdd(u, v) == [l \in DOMAIN u |-> u[l] + v[l]]
Scale(a, v) == [l \in DOMAIN v |-> a * v[l]]

\* A row-major scalar matrix seen as a matrix of w-wide vectors, and back.
Pack(X, rows, cols, w) ==
  [i \in 0..(rows - 1) |->
     [jv \in 0..((cols \div w) - 1) |-> [l \in 0..(w - 1) |-> X[i][jv * w + l]]]]
Unpack_reversed_lanes(V, rows, cols, w) ==
  [i \in 0..(rows - 1) |->
     [j \in 0..(cols - 1) |-> V[i][j \div w][(w - 1) - (j % w)]]]
Unpack(V, rows, cols, w) ==
  [i \in 0..(rows - 1) |-> [j \in 0..(cols - 1) |-> V[i][j \div w][j % w]]]

ZeroMat(rows, cols) == [i \in 0..(rows - 1) |-> [j \in 0..(cols - 1) |-> 0]]

\* ---------------------------------------------------------------- inputs
ElemA(s, i, k) == (1 + s + 2 * i + 3 * k + i * k) % (MaxVal + 1)
ElemB(s, k, j) == (2 + 3 * s + 5 * k + j + 2 * k * j) % (MaxVal + 1)
ElemC(s, i, j) == IF s = 0 THEN 0 ELSE (s + 4 * i + 3 * j + i * j) % (MaxVal + 1)

InputA(c, s) == [i \in 0..(c.N - 1) |-> [k \in 0..(c.K - 1) |-> ElemA(s, i, k)]]
InputB(c, s) == [k \in 0..(c.K - 1) |-> [j \in 0..(c.M - 1) |-> ElemB(s, k, j)]]
InputC(c, s) == [i \in 0..(c.N - 1) |-> [j \in 0..(c.M - 1) |-> ElemC(s, i, j)]]

\* ----------------------------------------------------------------- state
VARIABLES
  cfg,          \* the command line arguments N, K, M, P_R, P_C, W, T
  A, B, C,      \* the host arrays (scalar matrices)
  C0,           \* history: the host C before the first call
  alt,          \* the arguments of a second execution of the program
  first_C,      \* history: the C the first execution ended with
  sdfg_state,   \* "host" | "copy_to_device" | "gemm" | "copy_to_host"
  runs,         \* completed calls of the SDFG
  A_device, B_device, C_device,
  A_pipe, B_pipe, C_pipe,      \* the streams, indexed by <<row, column>>
  read_A, read_B, write_C,     \* iterations done by each map
  pe,           \* per processing element: position, A_reg, C_buffer
  log_A, log_B, \* history: what each distributor pushed, per stream slot
  arrivals,     \* history: what the collector popped, per PE column
  written,      \* history: number of writes to each C_device address
  last_write,   \* history: the collector's last iteration
  buffer_size,  \* the buffer_size of the streams A_pipe, B_pipe, C_pipe
  pe_log        \* history: per processing element, its stream accesses

vars ==
  <<cfg, alt, first_C, A, B, C, C0, sdfg_state, runs, A_device, B_device, C_device,
    A_pipe, B_pipe, C_pipe, read_A, read_B, write_C, pe, log_A, log_B,
    arrivals, written, last_write, buffer_size, pe_log>>

host_vars == <<cfg, alt, first_C, A, B, C, C0, runs, buffer_size>>
device_vars == <<A_device, B_device, C_device>>

\* -------------------------------------------------------------- streams
PRows(c) == 0..(c.P_R - 1)
PCols(c) == 0..(c.P_C - 1)
Grid(c) == PRows(c) \X PCols(c)

\* sdfg.add_stream: shapes and buffer sizes.
A_pipe_slots(c) == PRows(c) \X (0..c.P_C)
B_pipe_slots(c) == Grid(c)
C_pipe_slots(c) == Grid(c)
A_pipe_depth(c) == c.P_C
B_pipe_depth(c) == c.P_R
C_pipe_depth(c) == c.P_R
stream_buffer_size(c) ==
  [A_pipe |-> A_pipe_depth(c), B_pipe |-> B_pipe_depth(c),
   C_pipe |-> C_pipe_depth(c)]

CanPush_one_less(q, depth) == Len(q) < depth - 1
CanPush(q, depth) == Len(q) < depth
CanPop(q) == Len(q) > 0

\* ------------------------------------------------------ iteration spaces
\* A map over several parameters runs them lexicographically, the last
\* parameter innermost; i counts the iterations already done.
read_A_total(c) == NB(c) * NT(c) * c.K * c.P_R
read_A_iter(c, i) ==
  [n1 |-> i % c.P_R,
   k  |-> (i \div c.P_R) % c.K,
   tm |-> (i \div (c.P_R * c.K)) % NT(c),
   n0 |-> i \div (c.P_R * c.K * NT(c))]

read_B_total_one_more(c) == NB(c) * NT(c) * c.K * MT(c) * c.P_C + c.P_C
read_B_total(c) == NB(c) * NT(c) * c.K * MT(c) * c.P_C
read_B_iter_k_inner(c, i) ==
  [pe_j |-> i % c.P_C,
   k    |-> (i \div c.P_C) % c.K,
   m    |-> (i \div (c.P_C * c.K)) % MT(c),
   tm   |-> (i \div (c.P_C * MT(c) * c.K)) % NT(c),
   n    |-> i \div (c.P_C * MT(c) * c.K * NT(c))]
read_B_iter(c, i) ==
  [pe_j |-> i % c.P_C,
   m    |-> (i \div c.P_C) % MT(c),
   k    |-> (i \div (c.P_C * MT(c))) % c.K,
   tm   |-> (i \div (c.P_C * MT(c) * c.K)) % NT(c),
   n    |-> i \div (c.P_C * MT(c) * c.K * NT(c))]

write_C_total(c) == NB(c) * NT(c) * c.P_R * MT(c) * c.P_C
write_C_iter(c, i) ==
  [pe_j |-> i % c.P_C,
   m    |-> (i \div c.P_C) % MT(c),
   n1   |-> (i \div (c.P_C * MT(c))) % c.P_R,
   tm   |-> (i \div (c.P_C * MT(c) * c.P_R)) % NT(c),
   n0   |-> i \div (c.P_C * MT(c) * c.P_R * NT(c))]

\* Memlet subscripts.
read_A_row_first_block(c, it) == it.n1
read_A_row(c, it) == it.n0 * c.P_R + it.n1
read_A_slot_no_inversion(c, it) == <<it.n1, 0>>
read_A_slot(c, it) == <<c.P_R - it.n1 - 1, 0>>
read_B_col_unstriped(c, it) == it.tm * TW(c) + it.pe_j * MT(c) + it.m
read_B_col(c, it) == it.tm * TW(c) + it.m * c.P_C + it.pe_j
read_B_slot(c, it) == <<0, it.pe_j>>
write_C_row(c, it) == it.n0 * c.P_R + it.n1
write_C_col_overlapping(c, it) == it.tm * TW(c) + it.m + it.pe_j
write_C_col_contiguous(c, it) == it.tm * TW(c) + it.pe_j * MT(c) + it.m
write_C_col(c, it) == it.tm * TW(c) + it.m * c.P_C + it.pe_j
write_C_slot_top(c, it) == <<0, it.pe_j>>
write_C_slot(c, it) == <<c.P_R - 1, it.pe_j>>

\* ------------------------------------------------- processing elements
\* Position of one PE in its loop nest: pair = n0 * (M/T) + tm, then the
\* k loop (buffer_a, then the m map of multiply_add) and the write_C map.
NoHold == <<>>
PairCount(c) == NB(c) * NT(c)

PEDone(c, p) == p.stage = "done"

PEStart(c) ==
  [pair |-> 0, k |-> 0, m |-> 0, n1 |-> 0, hold |-> NoHold,
   stage |-> IF PairCount(c) > 0 THEN "buffer_a" ELSE "done",
   A_reg |-> 0,
   C_buffer |-> [x \in 0..(TW(c) - 1) |-> ZeroVec(c.W)]]

\* After the write_C map of a pair: the next (n0, tm) pair.
NextPair(c, p) ==
  [p EXCEPT !.pair = p.pair + 1, !.k = 0, !.m = 0, !.n1 = 0,
            !.stage = IF p.pair + 1 < PairCount(c) THEN "buffer_a" ELSE "done"]

\* After the k map of a pair: the write_C map over (n1, m).
StartDrain(c, p) ==
  IF MT(c) > 0
  THEN [p EXCEPT !.k = 0, !.m = 0, !.n1 = 0, !.stage = "write_c"]
  ELSE NextPair(c, p)

\* After the m map of reduction step k.
NextK_drain_early(c, p) == StartDrain(c, p)
NextK(c, p) ==
  IF p.k + 1 < c.K
  THEN [p EXCEPT !.k = p.k + 1, !.m = 0, !.stage = "buffer_a"]
  ELSE StartDrain(c, p)

\* After buffer_a: the m map of multiply_add.
StartM(c, p) ==
  IF MT(c) > 0
  THEN [p EXCEPT !.m = 0, !.stage = "multiply_add"]
  ELSE NextK(c, p)

\* After one multiply_add iteration.
NextM_reload(c, p) ==
  IF p.m + 1 < MT(c)
  THEN [p EXCEPT !.m = p.m + 1, !.stage = "buffer_a"]
  ELSE NextK(c, p)
NextM(c, p) ==
  IF p.m + 1 < MT(c)
  THEN [p EXCEPT !.m = p.m + 1, !.stage = "multiply_add"]
  ELSE NextK(c, p)

\* After one write_c iteration.
NextDrain_m_outer(c, p) ==
  IF p.n1 + 1 < c.P_R
  THEN [p EXCEPT !.n1 = p.n1 + 1, !.stage = "write_c"]
  ELSE IF p.m + 1 < MT(c)
       THEN [p EXCEPT !.m = p.m + 1, !.n1 = 0, !.stage = "write_c"]
       ELSE NextPair(c, p)
NextDrain(c, p) ==
  IF p.m + 1 < MT(c)
  THEN [p EXCEPT !.m = p.m + 1, !.stage = "write_c"]
  ELSE IF p.n1 + 1 < c.P_R
       THEN [p EXCEPT !.n1 = p.n1 + 1, !.m = 0, !.stage = "write_c"]
       ELSE NextPair(c, p)

\* ----------------------------------------------------------------- Init
EmptyStreams(slots) == [x \in slots |-> <<>>]
NoWrite == [run |-> 0]

\* History of one PE: the stream elements it popped and pushed, in order
\* (a_in, a_out: A_pipe; b_in, b_out: B_pipe; c_in, c_out: C_pipe), the
\* number of multiply_add results written to each C_buffer slot, and the
\* products added into each slot since it was last computed from c_prev = 0
\* (recorded with the slot when it is pushed from the buffer).
PELogStart(c) ==
  [a_in |-> <<>>, a_out |-> <<>>, b_in |-> <<>>, b_out |-> <<>>,
   c_in |-> <<>>, c_out |-> <<>>,
   updates |-> [m \in 0..(TW(c) - 1) |-> 0],
   terms |-> [m \in 0..(TW(c) - 1) |-> <<>>]]

Transients(c) ==
  /\ A_pipe = EmptyStreams(A_pipe_slots(c))
  /\ B_pipe = EmptyStreams(B_pipe_slots(c))
  /\ C_pipe = EmptyStreams(C_pipe_slots(c))
  /\ read_A = 0
  /\ read_B = 0
  /\ write_C = 0
  /\ pe = [x \in Grid(c) |-> PEStart(c)]
  /\ log_A = [r \in PRows(c) |-> <<>>]
  /\ log_B = [j \in PCols(c) |-> <<>>]
  /\ arrivals = [j \in PCols(c) |-> <<>>]
  /\ written = [i \in 0..(c.N - 1) |-> [jv \in 0..(MW(c) - 1) |-> 0]]
  /\ last_write = NoWrite
  /\ pe_log = [x \in Grid(c) |-> PELogStart(c)]

\* The harness before it calls the SDFG (lines 431-468): the arguments are
\* set and the three arrays are filled.
InitWith(configs, seeds) ==
  /\ cfg \in configs
  /\ \E s \in seeds :
       /\ A = InputA(cfg, s)
       /\ B = InputB(cfg, s)
       /\ C = InputC(cfg, s)
  /\ C0 = C
  /\ sdfg_state = "host"
  /\ runs = 0
  /\ A_device = ZeroMat(cfg.N, cfg.K)
  /\ B_device = Pack(ZeroMat(cfg.K, cfg.M), cfg.K, cfg.M, cfg.W)
  /\ C_device = Pack(ZeroMat(cfg.N, cfg.M), cfg.N, cfg.M, cfg.W)
  /\ Transients(cfg)

NoResult == <<>>

Seeds == 0..MaxSeed

Init ==
  /\ InitWith(Configs, Seeds)
  /\ alt = cfg
  /\ first_C = NoResult
  /\ buffer_size = stream_buffer_size(cfg)

\* --------------------------------------------------------- SDFG states
\* sdfg(A=A, B=B, C=C): the transient streams, registers and buffers are
\* fresh in every call.
Invoke ==
  /\ sdfg_state' = "copy_to_device"
  /\ A_pipe' = EmptyStreams(A_pipe_slots(cfg))
  /\ B_pipe' = EmptyStreams(B_pipe_slots(cfg))
  /\ C_pipe' = EmptyStreams(C_pipe_slots(cfg))
  /\ read_A' = 0
  /\ read_B' = 0
  /\ write_C' = 0
  /\ pe' = [x \in Grid(cfg) |-> PEStart(cfg)]
  /\ log_A' = [r \in PRows(cfg) |-> <<>>]
  /\ log_B' = [j \in PCols(cfg) |-> <<>>]
  /\ arrivals' = [j \in PCols(cfg) |-> <<>>]
  /\ written' = [i \in 0..(cfg.N - 1) |-> [jv \in 0..(MW(cfg) - 1) |-> 0]]
  /\ last_write' = NoWrite
  /\ pe_log' = [x \in Grid(cfg) |-> PELogStart(cfg)]
  /\ UNCHANGED <<host_vars, device_vars>>

\* The one call of the harness (lines 470-473).
Call ==
  /\ sdfg_state = "host"
  /\ runs = 0
  /\ Invoke

CopyToDevice ==
  /\ sdfg_state = "copy_to_device"
  /\ A_device' = A
  /\ B_device' = Pack(B, cfg.K, cfg.M, cfg.W)
  /\ C_device' = Pack(C, cfg.N, cfg.M, cfg.W)
  /\ sdfg_state' = "gemm"
  /\ UNCHANGED <<host_vars, A_pipe, B_pipe, C_pipe, read_A, read_B, write_C,
                 pe, log_A, log_B, arrivals, written, last_write, pe_log>>

\* Every component of the gemm state has run its whole iteration space.
Finished ==
  /\ read_A = read_A_total(cfg)
  /\ read_B = read_B_total(cfg)
  /\ write_C = write_C_total(cfg)
  /\ \A x \in Grid(cfg) : PEDone(cfg, pe[x])

CopyToHost ==
  /\ sdfg_state = "gemm"
  /\ Finished
  /\ C' = Unpack(C_device, cfg.N, cfg.M, cfg.W)
  /\ runs' = runs + 1
  /\ sdfg_state' = "host"
  /\ UNCHANGED <<cfg, alt, first_C, A, B, C0, buffer_size, device_vars, A_pipe,
                 B_pipe, C_pipe, read_A, read_B, write_C, pe, log_A, log_B,
                 arrivals, written, last_write, pe_log>>

\* ------------------------------------------------------- distributors
Read_A ==
  /\ sdfg_state = "gemm"
  /\ read_A < read_A_total(cfg)
  /\ LET it == read_A_iter(cfg, read_A)
         slot == read_A_slot(cfg, it)
         from_memory == A_device[read_A_row(cfg, it)][it.k]
     IN /\ CanPush(A_pipe[slot], buffer_size.A_pipe)
        /\ A_pipe' = [A_pipe EXCEPT ![slot] = Append(@, from_memory)]
        /\ log_A' = [log_A EXCEPT ![slot[1]] =
                       Append(@, [row |-> read_A_row(cfg, it), k |-> it.k,
                                  v |-> from_memory])]
  /\ read_A' = read_A + 1
  /\ UNCHANGED <<host_vars, device_vars, sdfg_state, B_pipe, C_pipe, read_B,
                 write_C, pe, log_B, arrivals, written, last_write, pe_log>>

Read_B ==
  /\ sdfg_state = "gemm"
  /\ read_B < read_B_total(cfg)
  /\ LET it == read_B_iter(cfg, read_B)
         slot == read_B_slot(cfg, it)
         col == read_B_col(cfg, it)
         from_memory == B_device[it.k][col]
     IN /\ CanPush(B_pipe[slot], buffer_size.B_pipe)
        /\ B_pipe' = [B_pipe EXCEPT ![slot] = Append(@, from_memory)]
        /\ log_B' = [log_B EXCEPT ![slot[2]] =
                       Append(@, [k |-> it.k, col |-> col, v |-> from_memory])]
  /\ read_B' = read_B + 1
  /\ UNCHANGED <<host_vars, device_vars, sdfg_state, A_pipe, C_pipe, read_A,
                 write_C, pe, log_A, arrivals, written, last_write, pe_log>>

\* ------------------------------------------------- processing elements
pe_unchanged ==
  UNCHANGED <<host_vars, device_vars, sdfg_state, read_A, read_B, write_C,
              log_A, log_B, arrivals, written, last_write>>

\* buffer_a: a_reg = a_in (the pop of A_pipe[p_r, p_c]).
Buffer_a_forward_always ==
  /\ sdfg_state = "gemm"
  /\ \E x \in Grid(cfg) :
       LET p == pe[x]
       IN /\ p.stage = "buffer_a"
          /\ CanPop(A_pipe[x])
          /\ A_pipe' = [A_pipe EXCEPT ![x] = Tail(@)]
          /\ pe' = [pe EXCEPT ![x] =
                      [p EXCEPT !.A_reg = Head(A_pipe[x]), !.stage = "a_out"]]
          /\ pe_log' = [pe_log EXCEPT ![x].a_in =
                          Append(@, [pair |-> p.pair, k |-> p.k,
                                     v |-> Head(A_pipe[x])])]
  /\ UNCHANGED <<B_pipe, C_pipe>>
  /\ pe_unchanged
Buffer_a ==
  /\ sdfg_state = "gemm"
  /\ \E x \in Grid(cfg) :
       LET p == pe[x]
           p_c == x[2]
       IN /\ p.stage = "buffer_a"
          /\ CanPop(A_pipe[x])
          /\ A_pipe' = [A_pipe EXCEPT ![x] = Tail(@)]
          /\ pe' = [pe EXCEPT ![x] =
                      IF p_c < cfg.P_C - 1
                      THEN [p EXCEPT !.A_reg = Head(A_pipe[x]), !.stage = "a_out"]
                      ELSE StartM(cfg, [p EXCEPT !.A_reg = Head(A_pipe[x])])]
          /\ pe_log' = [pe_log EXCEPT ![x].a_in =
                          Append(@, [pair |-> p.pair, k |-> p.k,
                                     v |-> Head(A_pipe[x])])]
  /\ UNCHANGED <<B_pipe, C_pipe>>
  /\ pe_unchanged

\* buffer_a: if p_c < P_C - 1: a_out = a_in (the push to A_pipe[p_r, p_c + 1]).
Buffer_a_out ==
  /\ sdfg_state = "gemm"
  /\ \E x \in Grid(cfg) :
       LET p == pe[x]
           next == <<x[1], x[2] + 1>>
       IN /\ p.stage = "a_out"
          /\ CanPush(A_pipe[next], buffer_size.A_pipe)
          /\ A_pipe' = [A_pipe EXCEPT ![next] = Append(@, p.A_reg)]
          /\ pe' = [pe EXCEPT ![x] = StartM(cfg, p)]
          /\ pe_log' = [pe_log EXCEPT ![x].a_out =
                          Append(@, [slot |-> next, v |-> p.A_reg])]
  /\ UNCHANGED <<B_pipe, C_pipe>>
  /\ pe_unchanged

\* multiply_add: c_prev = c_in; if k == 0: c_prev = 0; c_out = c_prev + a_in * b_in.
multiply_add_no_reset(p, b_in) ==
  VecAdd(p.C_buffer[p.m], Scale(p.A_reg, b_in))
multiply_add(p, b_in) ==
  LET c_in == p.C_buffer[p.m]
      c_prev == IF p.k = 0 THEN ZeroVec(Cardinality(DOMAIN b_in)) ELSE c_in
  IN VecAdd(c_prev, Scale(p.A_reg, b_in))

\* The same tasklet on the history of the slot: the products added since
\* c_prev = 0, in the order of the additions.
multiply_add_terms(p, terms, b_in) ==
  LET c_prev == IF p.k = 0 THEN <<>> ELSE terms
  IN Append(c_prev, [k |-> p.k, v |-> Scale(p.A_reg, b_in)])

Multiply_add ==
  /\ sdfg_state = "gemm"
  /\ \E x \in Grid(cfg) :
       LET p == pe[x]
           p_r == x[1]
           b_in == Head(B_pipe[x])
           q == [p EXCEPT !.C_buffer[p.m] = multiply_add(p, b_in)]
       IN /\ p.stage = "multiply_add"
          /\ CanPop(B_pipe[x])
          /\ B_pipe' = [B_pipe EXCEPT ![x] = Tail(@)]
          /\ pe' = [pe EXCEPT ![x] =
                      IF p_r < cfg.P_R - 1
                      THEN [q EXCEPT !.hold = b_in, !.stage = "b_out"]
                      ELSE NextM(cfg, q)]
          /\ pe_log' = [pe_log EXCEPT
                          ![x].b_in =
                            Append(@, [pair |-> p.pair, k |-> p.k,
                                       m |-> p.m, a_in |-> p.A_reg, v |-> b_in,
                                       loads |-> Len(pe_log[x].a_in),
                                       drained |-> Len(pe_log[x].c_out)]),
                          ![x].updates[p.m] = @ + 1,
                          ![x].terms[p.m] = multiply_add_terms(p, @, b_in)]
  /\ UNCHANGED <<A_pipe, C_pipe>>
  /\ pe_unchanged

\* multiply_add: if p_r < P_R - 1: b_out = b_in (the push to B_pipe[p_r + 1, p_c]).
Multiply_add_out_result ==
  /\ sdfg_state = "gemm"
  /\ \E x \in Grid(cfg) :
       LET p == pe[x]
           next == <<x[1] + 1, x[2]>>
       IN /\ p.stage = "b_out"
          /\ CanPush(B_pipe[next], buffer_size.B_pipe)
          /\ B_pipe' = [B_pipe EXCEPT ![next] = Append(@, p.C_buffer[p.m])]
          /\ pe' = [pe EXCEPT ![x] = NextM(cfg, [p EXCEPT !.hold = NoHold])]
          /\ pe_log' = [pe_log EXCEPT ![x].b_out =
                          Append(@, [slot |-> next, v |-> p.C_buffer[p.m]])]
  /\ UNCHANGED <<A_pipe, C_pipe>>
  /\ pe_unchanged
Multiply_add_out ==
  /\ sdfg_state = "gemm"
  /\ \E x \in Grid(cfg) :
       LET p == pe[x]
           next == <<x[1] + 1, x[2]>>
       IN /\ p.stage = "b_out"
          /\ CanPush(B_pipe[next], buffer_size.B_pipe)
          /\ B_pipe' = [B_pipe EXCEPT ![next] = Append(@, p.hold)]
          /\ pe' = [pe EXCEPT ![x] = NextM(cfg, [p EXCEPT !.hold = NoHold])]
          /\ pe_log' = [pe_log EXCEPT ![x].b_out =
                          Append(@, [slot |-> next, v |-> p.hold])]
  /\ UNCHANGED <<A_pipe, C_pipe>>
  /\ pe_unchanged

\* write_c: "if n1 <= p_r" and "forward_in if p_r > 0 and n1 > 0 else buffer_in".
write_c_writes_always(p_r, n1) == TRUE
write_c_writes(p_r, n1) == n1 <= p_r
write_c_forwards_early(p_r, n1) == p_r > 0 /\ n1 < p_r
write_c_forwards(p_r, n1) == p_r > 0 /\ n1 > 0

\* write_c, n1 > p_r: the tasklet writes nothing.
Write_c_skip ==
  /\ sdfg_state = "gemm"
  /\ \E x \in Grid(cfg) :
       LET p == pe[x]
           p_r == x[1]
       IN /\ p.stage = "write_c"
          /\ ~write_c_writes(p_r, p.n1)
          /\ pe' = [pe EXCEPT ![x] = NextDrain(cfg, p)]
  /\ UNCHANGED <<A_pipe, B_pipe, C_pipe, pe_log>>
  /\ pe_unchanged

\* write_c, n1 <= p_r and not (p_r > 0 and n1 > 0): c_out = buffer_in.
\* A stream element carries, as history, the PE row and slot it came from.
Write_c_buffer ==
  /\ sdfg_state = "gemm"
  /\ \E x \in Grid(cfg) :
       LET p == pe[x]
           p_r == x[1]
           buffer_in == p.C_buffer[p.m]
           c_out == [v |-> buffer_in, src |-> p_r, m |-> p.m, pair |-> p.pair]
       IN /\ p.stage = "write_c"
          /\ write_c_writes(p_r, p.n1)
          /\ ~write_c_forwards(p_r, p.n1)
          /\ CanPush(C_pipe[x], buffer_size.C_pipe)
          /\ C_pipe' = [C_pipe EXCEPT ![x] = Append(@, c_out)]
          /\ pe' = [pe EXCEPT ![x] = NextDrain(cfg, p)]
          /\ pe_log' = [pe_log EXCEPT ![x].c_out =
                          Append(@, [n1 |-> p.n1, own |-> TRUE,
                                     updates |-> pe_log[x].updates[p.m],
                                     terms |-> pe_log[x].terms[p.m],
                                     c_out |-> c_out])]
  /\ UNCHANGED <<A_pipe, B_pipe>>
  /\ pe_unchanged

\* write_c, n1 <= p_r and p_r > 0 and n1 > 0: forward_in is popped from
\* C_pipe[p_r - 1, p_c].
Write_c_forward ==
  /\ sdfg_state = "gemm"
  /\ \E x \in Grid(cfg) :
       LET p == pe[x]
           p_r == x[1]
           prev == <<x[1] - 1, x[2]>>
       IN /\ p.stage = "write_c"
          /\ write_c_writes(p_r, p.n1)
          /\ write_c_forwards(p_r, p.n1)
          /\ CanPop(C_pipe[prev])
          /\ C_pipe' = [C_pipe EXCEPT ![prev] = Tail(@)]
          /\ pe' = [pe EXCEPT ![x] =
                      [p EXCEPT !.hold = Head(C_pipe[prev]), !.stage = "c_out"]]
          /\ pe_log' = [pe_log EXCEPT ![x].c_in =
                          Append(@, [slot |-> prev, n1 |-> p.n1,
                                     forward_in |-> Head(C_pipe[prev])])]
  /\ UNCHANGED <<A_pipe, B_pipe>>
  /\ pe_unchanged

\* write_c: c_out = forward_in (the push to C_pipe[p_r, p_c]).
Write_c_out ==
  /\ sdfg_state = "gemm"
  /\ \E x \in Grid(cfg) :
       LET p == pe[x]
       IN /\ p.stage = "c_out"
          /\ CanPush(C_pipe[x], buffer_size.C_pipe)
          /\ C_pipe' = [C_pipe EXCEPT ![x] = Append(@, p.hold)]
          /\ pe' = [pe EXCEPT ![x] = NextDrain(cfg, [p EXCEPT !.hold = NoHold])]
          /\ pe_log' = [pe_log EXCEPT ![x].c_out =
                          Append(@, [n1 |-> p.n1, own |-> FALSE, updates |-> 0,
                                     terms |-> <<>>, c_out |-> p.hold])]
  /\ UNCHANGED <<A_pipe, B_pipe>>
  /\ pe_unchanged

\* ------------------------------------------------------------ collector
\* write_C: to_memory = from_kernel + prev_c.
write_C_tasklet_overwrite(from_kernel, prev_c) == from_kernel
write_C_tasklet(from_kernel, prev_c) == VecAdd(from_kernel, prev_c)

Write_C ==
  /\ sdfg_state = "gemm"
  /\ write_C < write_C_total(cfg)
  /\ LET it == write_C_iter(cfg, write_C)
         slot == write_C_slot(cfg, it)
         row == write_C_row(cfg, it)
         col == write_C_col(cfg, it)
         from_kernel == Head(C_pipe[slot])
         prev_c == C_device[row][col]
         to_memory == write_C_tasklet(from_kernel.v, prev_c)
     IN /\ CanPop(C_pipe[slot])
        /\ C_pipe' = [C_pipe EXCEPT ![slot] = Tail(@)]
        /\ C_device' = [C_device EXCEPT ![row][col] = to_memory]
        /\ written' = [written EXCEPT ![row][col] = @ + 1]
        /\ arrivals' = [arrivals EXCEPT ![it.pe_j] = Append(@, from_kernel)]
        /\ last_write' = [run |-> runs + 1, it |-> it, row |-> row, col |-> col,
                          slot |-> slot, from_kernel |-> from_kernel,
                          prev_c |-> prev_c, to_memory |-> to_memory]
  /\ write_C' = write_C + 1
  /\ UNCHANGED <<host_vars, sdfg_state, A_device, B_device, A_pipe, B_pipe,
                 read_A, read_B, pe, log_A, log_B, pe_log>>

\* ----------------------------------------------------------------- Next
\* One step of one component of the gemm state.
Gemm ==
  \/ Read_A
  \/ Read_B
  \/ Buffer_a
  \/ Buffer_a_out
  \/ Multiply_add
  \/ Multiply_add_out
  \/ Write_c_skip
  \/ Write_c_buffer
  \/ Write_c_forward
  \/ Write_c_out
  \/ Write_C

Next ==
  \/ Call
  \/ CopyToDevice
  \/ Gemm
  \/ CopyToHost

Spec == Init /\ [][Next]_vars

\* The components are hardware units that run whenever they are not blocked
\* on a stream, and the SDFG moves on to the next state once all are done.
\* Which stream accesses block does not depend on the values streamed, so
\* one input per configuration is explored here.
InitFair ==
  /\ InitWith(Configs, {0})
  /\ alt = cfg
  /\ first_C = NoResult
  /\ buffer_size = stream_buffer_size(cfg)

FairSpec ==
  InitFair /\ [][Next]_vars /\ WF_vars(CopyToDevice) /\ WF_vars(Gemm) /\ WF_vars(CopyToHost)

\* ------------------------------------------------ one run, one input
\* The harness run on the input with a non-zero C, for the properties of
\* the recorded stream accesses and buffer updates: which accesses a
\* component makes, and in which order, does not depend on the values.
InitTrace ==
  /\ InitWith(Configs, {MaxSeed})
  /\ alt = cfg
  /\ first_C = NoResult
  /\ buffer_size = stream_buffer_size(cfg)

TraceSpec == InitTrace /\ [][Next]_vars

\* ------------------------------------------------------- repeated calls
\* The SDFG is called again on the arrays the previous call left (same A
\* and B, C as returned).
CallAgain ==
  /\ sdfg_state = "host"
  /\ runs > 0
  /\ runs < MaxRuns
  /\ Invoke

InitRepeat ==
  /\ InitWith({c \in Configs : Iterations(c) <= MaxSmallIterations}, Seeds)
  /\ alt = cfg
  /\ first_C = NoResult
  /\ buffer_size = stream_buffer_size(cfg)

RepeatSpec == InitRepeat /\ [][Next \/ CallAgain]_vars

\* ------------------------------------------- two executions, compared
\* The program is executed a second time with the same N, K, M and the same
\* matrices but another array geometry, vector width or tile size (the
\* arguments P_R, P_C, W, T of lines 422-425).
PairConfigs == {c \in Configs : Iterations(c) <= MaxSmallIterations}
Alternatives(c) ==
  {d \in PairConfigs : d.N = c.N /\ d.K = c.K /\ d.M = c.M /\ d # c}

InitPair ==
  /\ InitWith(PairConfigs, Seeds)
  /\ alt \in Alternatives(cfg)
  /\ first_C = NoResult
  /\ buffer_size = stream_buffer_size(cfg)

Reconfigure ==
  /\ sdfg_state = "host"
  /\ runs = 1
  /\ first_C = NoResult
  /\ alt # cfg
  /\ first_C' = C
  /\ C' = C0
  /\ cfg' = alt
  /\ alt' = cfg
  /\ runs' = 0
  /\ buffer_size' = stream_buffer_size(alt)
  /\ UNCHANGED <<A, B, C0, sdfg_state, device_vars, A_pipe, B_pipe,
                 C_pipe, read_A, read_B, write_C, pe, log_A, log_B, arrivals,
                 written, last_write, pe_log>>

PairSpec == InitPair /\ [][Next \/ Reconfigure]_vars

\* ------------------------------------- arguments that are not divisible
\* The harness passes any positive arguments on to the SDFG (lines 431-450).
\* W divides M and T here, so that the packed shapes M/W and T/W are whole.
AnyConfigs ==
  {c \in Params :
     /\ Iterations(c) <= MaxAnyIterations
     /\ Divides(c.W, c.M) /\ Divides(c.W, c.T)
     /\ c.P_R <= c.N /\ c.T <= c.M /\ c.W * c.P_C <= c.T}

InitAny ==
  /\ InitWith({c \in AnyConfigs : ~Valid(c)}, Seeds)
  /\ alt = cfg
  /\ first_C = NoResult
  /\ buffer_size = stream_buffer_size(cfg)

AnySpec == InitAny /\ [][Next]_vars

\* =============================================================== claims
\* The reference result: the dense product, element by element.
RECURSIVE DotUpTo(_, _, _, _, _)
DotUpTo(X, Y, i, j, n) ==
  IF n = 0 THEN 0 ELSE DotUpTo(X, Y, i, j, n - 1) + X[i][n - 1] * Y[n - 1][j]

Product(i, j) == DotUpTo(A, B, i, j, cfg.K)

Rows == 0..(cfg.N - 1)
Cols == 0..(cfg.M - 1)
InGemm == sdfg_state = "gemm"
Returned == sdfg_state = "host" /\ runs > 0

\* C1: for every valid configuration and all matrices, once both
\* distributors, every PE and the collector have finished, every element of
\* C equals sum_k A[i][k] * B[k][j] plus the element of the initial C (on
\* the device when the gemm state is finished, and on the host after the
\* first call has returned).
C1_Result ==
  /\ (InGemm /\ Finished) =>
       \A i \in Rows, j \in Cols :
         Unpack(C_device, cfg.N, cfg.M, cfg.W)[i][j] = Product(i, j) + C[i][j]
  /\ (Returned /\ runs = 1) =>
       \A i \in Rows, j \in Cols : C[i][j] = Product(i, j) + C0[i][j]

C1_Witness ==
  /\ Returned /\ runs = 1
  /\ cfg.P_R = 2 /\ cfg.P_C = 2 /\ NB(cfg) = 2
  /\ \E i \in Rows, j \in Cols : C0[i][j] # 0 /\ C[i][j] # C0[i][j]

\* C2: with blocking push and pop on streams of the declared depths, no
\* state of the gemm state before completion is a deadlock (some component
\* can step), and under fair scheduling the gemm state always reaches the
\* state in which every component has finished.
C2_Terminates ==
  /\ []((InGemm /\ ~Finished) => ENABLED Gemm)
  /\ (InGemm ~> (InGemm /\ Finished))

C2_Witness ==
  /\ InGemm /\ Finished
  /\ cfg.P_C = 2 /\ MT(cfg) > B_pipe_depth(cfg) /\ MT(cfg) > C_pipe_depth(cfg)

\* C3: during one run the collector writes every address (row,
\* vector-column) of C exactly once: no address is written twice, when the
\* collector has finished every address of [0,N) x [0,M/W) has been written,
\* and every prev_c it reads is still the initial value of that address.
VecCols == 0..(MW(cfg) - 1)

C3_WriteOnce ==
  /\ \A i \in Rows, jv \in VecCols : written[i][jv] <= 1
  /\ (InGemm /\ write_C = write_C_total(cfg)) =>
       \A i \in Rows, jv \in VecCols : written[i][jv] = 1
  /\ (InGemm /\ last_write.run # 0) =>
       last_write.prev_c =
         Pack(C, cfg.N, cfg.M, cfg.W)[last_write.row][last_write.col]

C3_Witness ==
  /\ InGemm /\ Finished
  /\ cfg.P_C = 2 /\ MT(cfg) = 2 /\ NB(cfg) = 2
  /\ last_write.prev_c # ZeroVec(cfg.W)

\* C4: two successive calls with the same A and B, the first on C0 = 0 and
\* the second on the first one's output, leave C = 2 * (A * B).
C4_TwoRuns ==
  (Returned /\ runs = 2 /\ C0 = ZeroMat(cfg.N, cfg.M)) =>
    \A i \in Rows, j \in Cols : C[i][j] = 2 * Product(i, j)

C4_Witness ==
  /\ Returned /\ runs = 2 /\ C0 = ZeroMat(cfg.N, cfg.M)
  /\ cfg.P_R = 2 /\ cfg.W = 2
  /\ \E i \in Rows, j \in Cols : C[i][j] # 0

\* C5: for fixed N, K, M and fixed A, B, C0, a second execution with any
\* other valid (P_R, P_C, W, T) ends with the same C as the first.
C5_SameResult ==
  (Returned /\ first_C # NoResult) => C = first_C

C5_Witness ==
  /\ Returned /\ first_C # NoResult
  /\ cfg.P_R # alt.P_R /\ cfg.P_C # alt.P_C /\ cfg.W # alt.W /\ cfg.T # alt.T
  /\ C # C0

\* The PE row whose buffer is the x-th arrival (x = 1, 2, ...) of a column,
\* if the buffers of a pair arrive in ascending, or descending, row order.
ArrivalGroup(x) == ((x - 1) \div MT(cfg)) % cfg.P_R
AscendingRow(x) == ArrivalGroup(x)
DescendingRow(x) == cfg.P_R - 1 - ArrivalGroup(x)

\* C6 as stated: for each pair and PE column, the finished buffers arrive at
\* the collector in PE-row order 0, 1, ..., P_R-1 (row 0 first).
C6_AscendingRows ==
  \A j \in PCols(cfg) : \A x \in 1..Len(arrivals[j]) :
    arrivals[j][x].src = AscendingRow(x)

\* C6 amended: for each pair and PE column, the finished buffers arrive at
\* the collector in descending PE-row order P_R-1, ..., 1, 0 (the buffer of
\* PE row P_R-1 first, the buffer of PE row 0 last), each buffer whole and
\* in slot order, whatever the interleaving.
C6_DescendingRows ==
  \A j \in PCols(cfg) : \A x \in 1..Len(arrivals[j]) :
    /\ arrivals[j][x].src = DescendingRow(x)
    /\ arrivals[j][x].m = (x - 1) % MT(cfg)
    /\ arrivals[j][x].pair = (x - 1) \div (cfg.P_R * MT(cfg))

C6_Witness ==
  /\ InGemm /\ Finished
  /\ cfg.P_R = 2 /\ cfg.P_C = 2 /\ PairCount(cfg) = 2
  /\ \A j \in PCols(cfg) : Len(arrivals[j]) = 2 * cfg.P_R * MT(cfg)

\* What slot r of the row channel must carry at position x = 1, 2, ...:
\* (n0, tm, k) in lexicographic order, row n0 * P_R + (P_R - 1 - r).
ExpectedA(r, x) ==
  LET k == (x - 1) % cfg.K
      n0 == (x - 1) \div (cfg.K * NT(cfg))
      row == n0 * cfg.P_R + (cfg.P_R - 1 - r)
  IN [row |-> row, k |-> k, v |-> A[row][k]]

SentA(i, k) ==
  {<<r, x>> \in PRows(cfg) \X (1..(PairCount(cfg) * cfg.K)) :
     x <= Len(log_A[r]) /\ log_A[r][x].row = i /\ log_A[r][x].k = k}

\* C7: distributor A enqueues onto row-channel slot r, in this order, exactly
\* the values A[n0*P_R + (P_R-1-r), k] for (n0, tm, k) in lexicographic
\* order, (N/P_R)*(M/T)*K values per slot; every element of A is enqueued
\* exactly M/T times in one run.
C7_DistributorA ==
  /\ \A r \in PRows(cfg) :
       /\ Len(log_A[r]) <= PairCount(cfg) * cfg.K
       /\ \A x \in 1..Len(log_A[r]) : log_A[r][x] = ExpectedA(r, x)
       /\ (InGemm /\ read_A = read_A_total(cfg)) =>
            Len(log_A[r]) = PairCount(cfg) * cfg.K
  /\ (InGemm /\ read_A = read_A_total(cfg)) =>
       \A i \in Rows, k \in 0..(cfg.K - 1) : Cardinality(SentA(i, k)) = NT(cfg)

C7_Witness ==
  /\ InGemm /\ read_A = read_A_total(cfg)
  /\ cfg.P_R = 2 /\ NB(cfg) = 2 /\ cfg.K = 2
  /\ A[0][0] # A[1][0]

\* What slot pe_j of the column channel must carry at position x: (n, tm, k,
\* m) in lexicographic order, vector column tm*(T/W) + m*P_C + pe_j of row k.
ExpectedB(pe_j, x) ==
  LET m == (x - 1) % MT(cfg)
      k == ((x - 1) \div MT(cfg)) % cfg.K
      tm == ((x - 1) \div (MT(cfg) * cfg.K)) % NT(cfg)
      col == tm * (cfg.T \div cfg.W) + m * cfg.P_C + pe_j
  IN [k |-> k, col |-> col, v |-> Pack(B, cfg.K, cfg.M, cfg.W)[k][col]]

\* The vector columns sent to PE column pe_j in round y = (n, tm, k).
ColsSent(pe_j, y) == {log_B[pe_j][y * MT(cfg) + q].col : q \in 1..MT(cfg)}
TileCols(tm) == (tm * (cfg.T \div cfg.W))..((tm + 1) * (cfg.T \div cfg.W) - 1)

\* C8: distributor B enqueues onto column-channel slot pe_j, in this order,
\* exactly the vectors B[k, tm*(T/W) + m*P_C + pe_j] for (n, tm, k, m) in
\* lexicographic order; for each (tm, k) the vector columns sent to different
\* PE columns are pairwise disjoint and together are the tile's T/W columns.
C8_DistributorB ==
  /\ \A j \in PCols(cfg) :
       /\ Len(log_B[j]) <= PairCount(cfg) * cfg.K * MT(cfg)
       /\ \A x \in 1..Len(log_B[j]) : log_B[j][x] = ExpectedB(j, x)
  /\ (InGemm /\ read_B = read_B_total(cfg)) =>
       \A y \in 0..(PairCount(cfg) * cfg.K - 1) :
         /\ \A j1, j2 \in PCols(cfg) :
              j1 # j2 => ColsSent(j1, y) \cap ColsSent(j2, y) = {}
         /\ UNION {ColsSent(j, y) : j \in PCols(cfg)} =
              TileCols((y \div cfg.K) % NT(cfg))

C8_Witness ==
  /\ InGemm /\ read_B = read_B_total(cfg)
  /\ cfg.P_C = 2 /\ MT(cfg) = 2 /\ cfg.K = 2
  /\ log_B[0][1].v # log_B[1][1].v

\* C9 as stated: a configuration that violates a divisibility precondition
\* is rejected at setup: the SDFG is never entered, no operand is streamed,
\* C is not modified and no call returns.
C9_Rejected ==
  ~Valid(cfg) =>
    /\ sdfg_state = "host"
    /\ runs = 0
    /\ read_A = 0 /\ read_B = 0 /\ write_C = 0
    /\ C = C0

\* The vector sum_k A[i, k] * B[k, jv] of the packed B.
RECURSIVE DotVecUpTo(_, _, _)
DotVecUpTo(i, jv, n) ==
  IF n = 0
  THEN ZeroVec(cfg.W)
  ELSE VecAdd(DotVecUpTo(i, jv, n - 1),
              Scale(A[i][n - 1], Pack(B, cfg.K, cfg.M, cfg.W)[n - 1][jv]))

\* C10: for every P_C, the vector the collector pops from PE column pe_j at
\* iteration (n0, tm, n1, m) and adds into C[n0*P_R + n1, tm*(T/W) + m*P_C +
\* pe_j] is exactly sum_k A[n0*P_R + n1, k] * B[k, tm*(T/W) + m*P_C + pe_j].
C10_StripeMatches ==
  (InGemm /\ last_write.run # 0) =>
    LET it == last_write.it
        i == it.n0 * cfg.P_R + it.n1
        jv == it.tm * (cfg.T \div cfg.W) + it.m * cfg.P_C + it.pe_j
    IN /\ last_write.row = i
       /\ last_write.col = jv
       /\ last_write.from_kernel.v = DotVecUpTo(i, jv, cfg.K)

C10_Witness ==
  /\ InGemm /\ last_write.run # 0
  /\ cfg.P_C = 2 /\ cfg.P_R = 2 /\ MT(cfg) = 2
  /\ last_write.it.pe_j = 1 /\ last_write.it.m = 1 /\ last_write.it.n1 = 1

\* The latest entry of a log.  A log only grows by appending, so what holds
\* of the latest entry in every reachable state holds of every entry.
Last(log) == log[Len(log)]

\* C11: for each pair (n0, tm) and each PE column, the vector the collector
\* receives at iteration (n0, tm, n1, m) is slot m of the finished buffer of
\* the PE at row P_R-1-n1 for that pair, as that PE pushed it: the group
\* n1 = 0 comes from PE row P_R-1 (which pushes it from its own buffer, not
\* from a neighbour) and the group n1 = P_R-1 from PE row 0.
C11_ReverseDrain ==
  /\ (InGemm /\ last_write.run # 0) =>
       LET it == last_write.it
           from_kernel == last_write.from_kernel
           supplier == <<cfg.P_R - 1 - it.n1, it.pe_j>>
           q == it.n0 * NT(cfg) + it.tm
           c_out == pe_log[supplier].c_out
           y == q * (supplier[1] + 1) * MT(cfg) + it.m + 1
       IN /\ from_kernel.src = supplier[1]
          /\ from_kernel.m = it.m
          /\ from_kernel.pair = q
          /\ y <= Len(c_out)
          /\ c_out[y].own
          /\ c_out[y].c_out = from_kernel
          /\ (it.n1 = 0) => from_kernel.src = cfg.P_R - 1
          /\ (it.n1 = cfg.P_R - 1) => from_kernel.src = 0
  /\ \A j \in PCols(cfg) :
       LET c_out == pe_log[<<cfg.P_R - 1, j>>].c_out
       IN (c_out # <<>>) => (Last(c_out).own <=> Last(c_out).n1 = 0)

C11_Witness ==
  /\ InGemm /\ last_write.run # 0
  /\ cfg.P_R = 2 /\ cfg.P_C = 2 /\ MT(cfg) = 2
  /\ last_write.it.n1 = 1 /\ last_write.it.m = 1 /\ last_write.it.pe_j = 1
  /\ last_write.from_kernel.src = 0

\* The matrix row held by PE row p_r, and the vector column of slot m of PE
\* column p_c, in pair number q = n0 * (M/T) + tm.
PERow(p_r, q) == (q \div NT(cfg)) * cfg.P_R + (cfg.P_R - 1 - p_r)
PECol(p_c, q, m) == (q % NT(cfg)) * TW(cfg) + m * cfg.P_C + p_c
Slots == 0..(MT(cfg) - 1)

\* C12: a buffer slot that has received u > 0 multiply_add results so far is
\* in pair q = (u-1) div K at reduction step k = (u-1) mod K and holds the
\* sum of the k+1 products of pair q only (the k = 0 update replaced what
\* the previous pair left); the slot is not updated ahead of or behind the
\* PE's own pair, and whenever the PE is in the drain of a pair every slot
\* has received exactly K updates for that pair.
C12_ResetPerPair ==
  \A x \in Grid(cfg), m \in Slots :
    LET u == pe_log[x].updates[m]
        q == (u - 1) \div cfg.K
        n == u - q * cfg.K
    IN /\ (u = 0) => pe[x].C_buffer[m] = ZeroVec(cfg.W)
       /\ (u > 0) =>
            /\ pe[x].C_buffer[m] = DotVecUpTo(PERow(x[1], q), PECol(x[2], q, m), n)
            /\ Len(pe_log[x].terms[m]) = n
            /\ q \in {pe[x].pair - 1, pe[x].pair}
       /\ (pe[x].stage \in {"write_c", "c_out"}) => u = (pe[x].pair + 1) * cfg.K

C12_Witness ==
  /\ InGemm /\ cfg.K = 2 /\ cfg.P_R = 2
  /\ \E x \in Grid(cfg), m \in Slots :
       /\ pe[x].pair = 1 /\ pe[x].k = 0 /\ pe[x].stage = "b_out"
       /\ pe_log[x].updates[m] = cfg.K + 1
       /\ pe[x].C_buffer[m] # ZeroVec(cfg.W)
       /\ pe[x].C_buffer[m] # DotVecUpTo(PERow(x[1], 0), PECol(x[2], 0, m), cfg.K)

\* The left-to-right sum 0 + terms[1].v + ... + terms[n].v.
RECURSIVE SumTerms(_, _)
SumTerms(terms, n) ==
  IF n = 0 THEN ZeroVec(cfg.W) ELSE VecAdd(SumTerms(terms, n - 1), terms[n].v)

Degenerate == cfg.P_R = 1 /\ cfg.P_C = 1 /\ cfg.W = 1 /\ cfg.T = cfg.M

\* C13: the vector the collector adds into C[i, jv] is one that a PE pushed
\* from its buffer, where it was formed by starting from 0 and adding the K
\* products A[i, k] * B[k, jv] one at a time in ascending k = 0..K-1; the
\* collector then adds the initial C[i, jv] once, as the last addition, and
\* writes the address once; with P_R = P_C = W = 1 and
\* T = M nothing is forwarded between PEs and the collector iterates over
\* (i, j) in row-major order, so this is the whole computation.
C13_AdditionOrder ==
  /\ (InGemm /\ last_write.run # 0) =>
       LET i == last_write.row
           jv == last_write.col
           it == last_write.it
           from_kernel == last_write.from_kernel
           supplier == <<from_kernel.src, it.pe_j>>
           c_out == pe_log[supplier].c_out
           y == from_kernel.pair * (supplier[1] + 1) * MT(cfg) + it.m + 1
           terms == c_out[y].terms
       IN /\ y <= Len(c_out)
          /\ c_out[y].own
          /\ c_out[y].c_out = from_kernel
          /\ Len(terms) = cfg.K
          /\ \A z \in 1..Len(terms) :
               /\ terms[z].k = z - 1
               /\ terms[z].v =
                    Scale(A[i][z - 1], Pack(B, cfg.K, cfg.M, cfg.W)[z - 1][jv])
          /\ from_kernel.v = SumTerms(terms, cfg.K)
          /\ last_write.prev_c = Pack(C0, cfg.N, cfg.M, cfg.W)[i][jv]
          /\ last_write.to_memory = VecAdd(SumTerms(terms, cfg.K), last_write.prev_c)
          /\ C_device[i][jv] = last_write.to_memory
          /\ written[i][jv] = 1
  /\ (InGemm /\ Degenerate) =>
       /\ pe_log[<<0, 0>>].a_out = <<>>
       /\ pe_log[<<0, 0>>].b_out = <<>>
       /\ pe_log[<<0, 0>>].c_in = <<>>
       /\ (last_write.run # 0) =>
            /\ last_write.row = (write_C - 1) \div cfg.M
            /\ last_write.col = (write_C - 1) % cfg.M

C13_Witness ==
  /\ InGemm /\ Finished /\ Degenerate
  /\ cfg.N = 2 /\ cfg.K = 2 /\ cfg.M = 2
  /\ last_write.prev_c # ZeroVec(cfg.W)
  /\ Last(pe_log[<<0, 0>>].c_out).c_out = last_write.from_kernel
  /\ Last(pe_log[<<0, 0>>].c_out).terms[1].v # Last(pe_log[<<0, 0>>].c_out).terms[2].v

\* The position (pair, k, m) of the y-th multiply_add of a PE, y = 1, 2, ...
MulPair(y) == (y - 1) \div (MT(cfg) * cfg.K)
MulK(y) == ((y - 1) \div MT(cfg)) % cfg.K
MulM(y) == (y - 1) % MT(cfg)

\* C14: the y-th multiply_add of PE (p_r, p_c) is that of step k, offset m
\* of pair (n0, tm) in lexicographic order, and multiplies the register
\* value A[n0*P_R + (P_R-1-p_r), k] by the popped vector
\* B[k, tm*(T/W) + m*P_C + p_c]; by then the PE has loaded its register
\* exactly once per reduction step so far, the register still holds the
\* value loaded for step k at every offset m, and the values loaded for the
\* same step by two PEs of the same row are equal.
C14_Operands ==
  /\ \A x \in Grid(cfg) :
       LET b_in == pe_log[x].b_in
           a_in == pe_log[x].a_in
           y == Len(b_in)
       IN (y > 0) =>
            /\ b_in[y].pair = MulPair(y)
            /\ b_in[y].k = MulK(y)
            /\ b_in[y].m = MulM(y)
            /\ b_in[y].a_in = A[PERow(x[1], MulPair(y))][MulK(y)]
            /\ b_in[y].v =
                 Pack(B, cfg.K, cfg.M, cfg.W)[MulK(y)][PECol(x[2], MulPair(y), MulM(y))]
            /\ b_in[y].loads = MulPair(y) * cfg.K + MulK(y) + 1
            /\ b_in[y].loads <= Len(a_in)
            /\ a_in[b_in[y].loads].v = b_in[y].a_in
            /\ a_in[b_in[y].loads].k = MulK(y)
  /\ \A x1, x2 \in Grid(cfg) :
       LET y == Len(pe_log[x1].a_in)
       IN (x1[1] = x2[1] /\ y > 0 /\ y <= Len(pe_log[x2].a_in)) =>
            pe_log[x1].a_in[y].v = pe_log[x2].a_in[y].v

C14_Witness ==
  /\ InGemm /\ cfg.P_R = 2 /\ cfg.K = 2 /\ MT(cfg) = 2
  /\ A[PERow(0, 0)][1] # A[PERow(1, 0)][1]
  /\ Len(pe_log[<<0, 0>>].b_in) = 4
  /\ pe_log[<<0, 0>>].b_in[4].k = 1 /\ pe_log[<<0, 0>>].b_in[4].m = 1
  /\ pe_log[<<0, 0>>].b_in[3].a_in = pe_log[<<0, 0>>].b_in[4].a_in

Right(x) == <<x[1], x[2] + 1>>
Below(x) == <<x[1] + 1, x[2]>>

\* Log r is no longer than log s and its latest entry has the same value
\* as the entry of s at the same position.
Follows(r, s) ==
  /\ Len(r) <= Len(s)
  /\ (r # <<>>) => Last(r).v = s[Len(r)].v

\* C15: along a PE row the A values, and along a PE column the B vectors,
\* move one PE at a time and unmodified: the y-th value PE (p_r, p_c)
\* forwards is the y-th it loaded (consumed), pushed to the slot of the
\* next PE only, and the y-th value PE (p_r, p_c+1) loads (PE (p_r+1, p_c)
\* consumes) is the y-th its neighbour forwarded, so no PE holds an operand
\* before the PE before it; the PEs of the last column forward no A value
\* and the PEs of the last row forward no B vector.
C15_Ripple ==
  \A x \in Grid(cfg) :
    /\ Follows(pe_log[x].a_out, pe_log[x].a_in)
    /\ Follows(pe_log[x].b_out, pe_log[x].b_in)
    /\ (pe_log[x].a_out # <<>>) => Last(pe_log[x].a_out).slot = Right(x)
    /\ (pe_log[x].b_out # <<>>) => Last(pe_log[x].b_out).slot = Below(x)
    /\ (x[2] < cfg.P_C - 1) =>
         /\ Follows(pe_log[Right(x)].a_in, pe_log[x].a_out)
         /\ Len(pe_log[Right(x)].a_in) <= Len(pe_log[x].a_in)
    /\ (x[1] < cfg.P_R - 1) =>
         /\ Follows(pe_log[Below(x)].b_in, pe_log[x].b_out)
         /\ Len(pe_log[Below(x)].b_in) <= Len(pe_log[x].b_in)
    /\ (x[2] = cfg.P_C - 1) => pe_log[x].a_out = <<>>
    /\ (x[1] = cfg.P_R - 1) => pe_log[x].b_out = <<>>

C15_Witness ==
  /\ InGemm /\ cfg.P_R = 2 /\ cfg.P_C = 2 /\ cfg.K = 2
  /\ Len(pe_log[<<0, 0>>].a_in) = 2 /\ Len(pe_log[<<0, 1>>].a_in) = 1
  /\ Len(pe_log[<<0, 1>>].b_in) = 1 /\ Len(pe_log[<<1, 1>>].b_in) = 1
  /\ Len(pe_log[<<1, 1>>].a_in) = 1
  /\ pe_log[<<0, 0>>].a_in[1].v # pe_log[<<1, 0>>].a_in[1].v
  /\ pe_log[<<0, 0>>].b_in[1].v # pe_log[<<0, 1>>].b_in[1].v

Above(x) == <<x[1] - 1, x[2]>>

\* Pushes of PE row p_r in the drain of one pair, and the pair, drain step
\* and slot of its y-th push, y = 1, 2, ...
DrainPushes(p_r) == (p_r + 1) * MT(cfg)
DrainPair(p_r, y) == (y - 1) \div DrainPushes(p_r)
DrainN1(p_r, y) == ((y - 1) % DrainPushes(p_r)) \div MT(cfg)
DrainM(y) == (y - 1) % MT(cfg)

\* The pops of PE row p_r from the slot above it before drain step n1, slot
\* m of pair q.
DrainPops(p_r, q, n1, m) == q * p_r * MT(cfg) + (n1 - 1) * MT(cfg) + m

\* C16: in the drain of each pair the PE at row p_r pushes exactly
\* (p_r+1)*T/(W*P_C) vectors onto C_pipe[p_r, p_c]: at n1 = 0 its own buffer
\* slots m = 0, 1, ... of that pair, then at n1 = 1..p_r, one for one and in
\* the order received, the vectors it popped from C_pipe[p_r-1, p_c]; it
\* pushes and pops nothing at n1 > p_r, and a PE of row 0 pops nothing.
C16_DrainRelay ==
  \A x \in Grid(cfg) :
    LET p_r == x[1]
        c_out == pe_log[x].c_out
        c_in == pe_log[x].c_in
        p == pe[x]
        y == Len(c_out)
        q == DrainPair(p_r, y)
        n1 == DrainN1(p_r, y)
        m == DrainM(y)
    IN /\ (y > 0) =>
            /\ c_out[y].n1 = n1
            /\ n1 <= p_r
            /\ (n1 = 0) =>
                 /\ c_out[y].own
                 /\ c_out[y].c_out.src = p_r
                 /\ c_out[y].c_out.m = m
                 /\ c_out[y].c_out.pair = q
            /\ (n1 > 0) =>
                 /\ ~c_out[y].own
                 /\ DrainPops(p_r, q, n1, m) + 1 <= Len(c_in)
                 /\ c_in[DrainPops(p_r, q, n1, m) + 1].forward_in = c_out[y].c_out
                 /\ c_in[DrainPops(p_r, q, n1, m) + 1].n1 = n1
       /\ (c_in # <<>>) =>
            /\ Last(c_in).slot = Above(x)
            /\ Last(c_in).n1 >= 1
            /\ Last(c_in).n1 <= p_r
       /\ (p.stage \in {"write_c", "c_out"}) =>
            /\ (p.n1 <= p_r) =>
                 Len(c_out) = p.pair * DrainPushes(p_r) + p.n1 * MT(cfg) + p.m
            /\ (p.n1 > p_r) =>
                 /\ Len(c_out) = (p.pair + 1) * DrainPushes(p_r)
                 /\ Len(c_in) = (p.pair + 1) * p_r * MT(cfg)
       /\ (p.stage \in {"buffer_a", "a_out", "multiply_add", "b_out", "done"}) =>
            /\ Len(c_out) = p.pair * DrainPushes(p_r)
            /\ Len(c_in) = p.pair * p_r * MT(cfg)
       /\ (p_r = 0) => c_in = <<>>

C16_Witness ==
  /\ InGemm /\ cfg.P_R = 2 /\ MT(cfg) = 2 /\ PairCount(cfg) = 2
  /\ PEDone(cfg, pe[<<1, 0>>])
  /\ Len(pe_log[<<1, 0>>].c_out) = 8 /\ Len(pe_log[<<1, 0>>].c_in) = 4
  /\ Len(pe_log[<<0, 0>>].c_out) = 4
  /\ pe_log[<<1, 0>>].c_out[3].c_out.v # pe_log[<<1, 0>>].c_out[1].c_out.v

\* Own-buffer pushes among the first n pushes of the PE at x.
OwnAmong(x, n) ==
  Cardinality({z \in 1..n : pe_log[x].c_out[z].own})

\* The complete K-term sum of slot m of PE x in pair q.
Complete(x, q, m) == DotVecUpTo(PERow(x[1], q), PECol(x[2], q, m), cfg.K)

\* C17: a PE pushes slot m of a pair from its buffer only when the slot has
\* received all K updates of that pair (and of every earlier pair), so the
\* pushed vector is the complete K-term sum; when a PE performs the k = 0
\* update of pair q it has pushed all its own T/(W*P_C) slots of every
\* earlier pair; every vector in a C_pipe queue, held by a relaying PE or
\* received by the collector is a complete K-term sum.
C17_NoPartialSum ==
  /\ \A x \in Grid(cfg) :
       /\ (pe_log[x].c_out # <<>>) =>
            LET push == Last(pe_log[x].c_out)
            IN push.own =>
                 /\ push.updates = (push.c_out.pair + 1) * cfg.K
                 /\ Len(push.terms) = cfg.K
                 /\ push.c_out.v = Complete(x, push.c_out.pair, push.c_out.m)
       /\ (pe_log[x].b_in # <<>>) =>
            LET mul == Last(pe_log[x].b_in)
            IN (mul.k = 0) =>
                 /\ mul.drained <= Len(pe_log[x].c_out)
                 /\ OwnAmong(x, mul.drained) = mul.pair * MT(cfg)
       /\ (pe[x].stage = "c_out") =>
            pe[x].hold.v =
              Complete(<<pe[x].hold.src, x[2]>>, pe[x].hold.pair, pe[x].hold.m)
  /\ \A slot \in C_pipe_slots(cfg) : \A y \in 1..Len(C_pipe[slot]) :
       LET e == C_pipe[slot][y]
       IN e.v = Complete(<<e.src, slot[2]>>, e.pair, e.m)
  /\ (InGemm /\ last_write.run # 0) =>
       LET e == last_write.from_kernel
       IN e.v = Complete(<<e.src, last_write.it.pe_j>>, e.pair, e.m)

C17_Witness ==
  /\ InGemm /\ cfg.K = 2 /\ cfg.P_R = 2
  /\ Len(arrivals[0]) > 0
  /\ arrivals[0][1].v # ZeroVec(cfg.W)
  /\ arrivals[0][1].v # Scale(A[PERow(arrivals[0][1].src, 0)][0], B_device[0][PECol(0, 0, 0)])
  /\ \E y \in 1..Len(pe_log[<<0, 0>>].b_in) :
       /\ pe_log[<<0, 0>>].b_in[y].k = 0
       /\ pe_log[<<0, 0>>].b_in[y].pair = 1
       /\ pe_log[<<0, 0>>].b_in[y].drained = MT(cfg)

\* ---------------------------------------------- streams of other depths
\* The same SDFG with the buffer_size of each stream replaced by any depth
\* from 1 to MaxDepth (lines 373, 378 and 384), on one input with a
\* non-zero C.
DepthConfigs == {c \in Configs : Iterations(c) <= MaxDepthIterations}

InitDepth ==
  /\ InitWith(DepthConfigs, {MaxSeed})
  /\ alt = cfg
  /\ first_C = NoResult
  /\ buffer_size \in [A_pipe : 1..MaxDepth, B_pipe : 1..MaxDepth,
                      C_pipe : 1..MaxDepth]

DepthSpec == InitDepth /\ [][Next]_vars

\* C18: whatever the depths of the three streams (each at least 1) and
\* whatever the interleaving of the distributors, the PEs and the
\* collector, some component can step until all have finished, and the C
\* left on the device and returned to the host is A * B + C0.
C18_Determinate ==
  /\ (InGemm /\ ~Finished) => ENABLED Gemm
  /\ (InGemm /\ Finished) =>
       \A i \in Rows, j \in Cols :
         Unpack(C_device, cfg.N, cfg.M, cfg.W)[i][j] = Product(i, j) + C0[i][j]
  /\ Returned =>
       \A i \in Rows, j \in Cols : C[i][j] = Product(i, j) + C0[i][j]

C18_Witness ==
  /\ Returned
  /\ cfg.P_R = 2 /\ cfg.P_C = 2
  /\ buffer_size.A_pipe = 1 /\ buffer_size.B_pipe = 1 /\ buffer_size.C_pipe = 1
  /\ C # C0 /\ C0 # ZeroMat(cfg.N, cfg.M)

\* Values pushed to, and popped from, each stream slot so far.  The producer
\* of A_pipe[p_r, p_c] is read_A for p_c = 0 and PE (p_r, p_c-1) otherwise,
\* that of B_pipe[p_r, p_c] is read_B for p_r = 0 and PE (p_r-1, p_c)
\* otherwise, that of C_pipe[p_r, p_c] is PE (p_r, p_c); the consumer is PE
\* (p_r, p_c) on A_pipe and B_pipe, and on C_pipe PE (p_r+1, p_c), or
\* write_C for p_r = P_R-1.
PushedA(s) ==
  IF s[2] = 0 THEN Len(log_A[s[1]]) ELSE Len(pe_log[<<s[1], s[2] - 1>>].a_out)
PoppedA(s) == IF s[2] < cfg.P_C THEN Len(pe_log[s].a_in) ELSE 0
PushedB(s) ==
  IF s[1] = 0 THEN Len(log_B[s[2]]) ELSE Len(pe_log[<<s[1] - 1, s[2]>>].b_out)
PoppedB(s) == Len(pe_log[s].b_in)
PushedC(s) == Len(pe_log[s].c_out)
PoppedC(s) ==
  IF s[1] = cfg.P_R - 1
  THEN Len(arrivals[s[2]])
  ELSE Len(pe_log[<<s[1] + 1, s[2]>>].c_in)

\* The traffic of one run on a slot of each stream.
TrafficA(s) == IF s[2] < cfg.P_C THEN PairCount(cfg) * cfg.K ELSE 0
TrafficB(s) == PairCount(cfg) * cfg.K * MT(cfg)
TrafficC(s) == PairCount(cfg) * (s[1] + 1) * MT(cfg)

\* C19: on every stream slot the values pushed so far are those popped plus
\* those queued, never more than the slot's traffic of one run
\* ((N/P_R)*(M/T)*K on A, times T/(W*P_C) on B, (N/P_R)*(M/T)*(p_r+1)*
\* T/(W*P_C) on C); when all components have finished every queue is empty
\* and pushed = popped = that traffic on every slot.
C19_Drained ==
  InGemm =>
    /\ \A s \in A_pipe_slots(cfg) :
         /\ PushedA(s) = PoppedA(s) + Len(A_pipe[s])
         /\ PushedA(s) <= TrafficA(s)
    /\ \A s \in B_pipe_slots(cfg) :
         /\ PushedB(s) = PoppedB(s) + Len(B_pipe[s])
         /\ PushedB(s) <= TrafficB(s)
    /\ \A s \in C_pipe_slots(cfg) :
         /\ PushedC(s) = PoppedC(s) + Len(C_pipe[s])
         /\ PushedC(s) <= TrafficC(s)
    /\ Finished =>
         /\ \A s \in A_pipe_slots(cfg) :
              A_pipe[s] = <<>> /\ PoppedA(s) = TrafficA(s)
         /\ \A s \in B_pipe_slots(cfg) :
              B_pipe[s] = <<>> /\ PoppedB(s) = TrafficB(s)
         /\ \A s \in C_pipe_slots(cfg) :
              C_pipe[s] = <<>> /\ PoppedC(s) = TrafficC(s)

C19_Witness ==
  /\ InGemm /\ Finished
  /\ cfg.P_R = 2 /\ cfg.P_C = 2 /\ PairCount(cfg) = 2
  /\ PoppedA(<<1, 1>>) = 2 /\ PoppedB(<<1, 1>>) = 2 /\ PoppedC(<<1, 1>>) = 4

\* The slots of each stream that have a producer and a consumer.
A_pipe_used == Grid(cfg)
B_pipe_used == Grid(cfg)
C_pipe_used == Grid(cfg)

\* C20: every conditional stream access of a PE, and every access of the
\* collector, is on a slot that has both a producer and a consumer: a PE
\* pushes A only to a column below P_C and B only to a row below P_R, and
\* pops C only from a row >= 0 (a PE of row 0 not at all); the collector
\* pops from row P_R-1 only; the declared column P_C of A_pipe stays empty
\* and no access changes the shape of a stream.
C20_SlotsInRange ==
  /\ \A x \in Grid(cfg) :
       /\ (pe_log[x].a_out # <<>>) =>
            /\ Last(pe_log[x].a_out).slot \in A_pipe_used
            /\ Last(pe_log[x].a_out).slot[2] < cfg.P_C
       /\ (pe_log[x].b_out # <<>>) =>
            /\ Last(pe_log[x].b_out).slot \in B_pipe_used
            /\ Last(pe_log[x].b_out).slot[1] < cfg.P_R
       /\ (pe_log[x].c_in # <<>>) =>
            /\ Last(pe_log[x].c_in).slot \in C_pipe_used
            /\ Last(pe_log[x].c_in).slot[1] >= 0
       /\ (x[1] = 0) => pe_log[x].c_in = <<>>
  /\ (last_write.run # 0) =>
       /\ last_write.slot = <<cfg.P_R - 1, last_write.it.pe_j>>
       /\ last_write.slot \in C_pipe_used
  /\ \A r \in PRows(cfg) : A_pipe[<<r, cfg.P_C>>] = <<>>
  /\ DOMAIN A_pipe = A_pipe_slots(cfg)
  /\ DOMAIN B_pipe = B_pipe_slots(cfg)
  /\ DOMAIN C_pipe = C_pipe_slots(cfg)

C20_Witness ==
  /\ InGemm /\ Finished /\ cfg.P_R = 2 /\ cfg.P_C = 2
  /\ last_write.slot = <<1, 1>>
  /\ pe_log[<<0, 0>>].a_out # <<>> /\ pe_log[<<0, 0>>].b_out # <<>>
  /\ pe_log[<<1, 1>>].c_in # <<>>
  /\ pe_log[<<0, 1>>].a_out = <<>> /\ pe_log[<<1, 0>>].b_out = <<>>

====
